---- MODULE Spec2Model ----
(***************************************************************************)
(* Simulation core of the dungeon scene (src/unnamed/part_000, the         *)
(* DungeonScene component): map load, player movement with box collision,  *)
(* creature pursuit AI, projectile lifecycle, deferred cleanup queue and   *)
(* the frame loop.                                                         *)
(*                                                                         *)
(* Numbers.  Lengths are integers in units of 0.001 world units (so        *)
(* cellSize 2 is 2000, the player's half box 0.3 is 300).  Angles are      *)
(* integers in units of pi/64 (0.0491 rad), taken modulo 128; the turn     *)
(* step 0.05 rad is one unit.  Sin/Cos return 1000 * the sine/cosine,      *)
(* rounded; products with them are rounded to the nearest unit.  The       *)
(* vertical axis is left out: with level pitch every box of the program    *)
(* overlaps every other in y (player [0,2], creature [0,1.6], wall         *)
(* [0,2.4], bolt about 1.4), so Box3.intersectsBox is decided by x and z.  *)
(***************************************************************************)
EXTENDS Integers, Sequences, FiniteSets, TLC

VARIABLES
    mapData,        \* the mapData prop: 0 = null, else an index into Maps
    mapDataRef,     \* mapDataRef.current, same encoding
    scene,          \* sceneRef.current and cameraRef.current are set
    registered,     \* the effect's listeners and window.dungeonShoot are installed
    clickInv,       \* inventoryVisible as captured by the installed handleClick
    inventoryVisible, \* the inventoryVisible prop
    isLocked,       \* mouseRef.current.isLocked
    lockElement,    \* document.pointerLockElement is the current canvas
    keys,           \* keysRef.current
    player,         \* playerRef.current: [x, z, angle]
    isMoving,       \* bobRef.current.isMoving
    walls,          \* wallsRef.current: the wall boxes
    creatures,      \* creaturesRef.current: Seq of [id, x, z, box]
    projectiles,    \* projectilesRef.current: Seq of [id, x, z, vx, vz, angle, life, age]
    cleanupQueue,   \* cleanupQueueRef.current: Seq of creature ids
    released,       \* creature ids whose resources were disposed, in order
    retired,        \* projectiles removed from the active list, as they were then:
                    \* [id, hitWall, hitCreature, life, age]
    poseSink,       \* last pose handed to onPlayerMove
    creatureSink,   \* last list handed to onCreatureUpdate
    pc,             \* position of the running animate() call, "idle" between calls
    passesLeft,     \* animate callbacks still to run in this display refresh
    loops,          \* requestAnimationFrame loops alive
    nextId,         \* creatures created so far
    nextProj,       \* projectiles created so far
    ticks,          \* display refreshes so far
    loads,          \* map changes so far
    inputs,         \* input events so far (n) and calls of shoot() made by them (triggers)
    drain,          \* history: queue length at the last enqueue, drains since
    frame,          \* history of the current animate() call
    page            \* the state of the DungeonCrawler page around the scene: its
                    \* overlay flags, pending timeouts, health and mana

vars == <<mapData, mapDataRef, scene, registered, clickInv, inventoryVisible,
          isLocked, lockElement, keys, player, isMoving, walls, creatures,
          projectiles, cleanupQueue, released, retired, poseSink, creatureSink,
          pc, passesLeft, loops, nextId, nextProj, ticks, loads, inputs, drain, frame,
          page>>

inputVars == <<clickInv, inventoryVisible, isLocked, lockElement, keys>>
worldVars == <<mapData, mapDataRef, scene, registered, walls, loops, nextId, loads>>
sinkVars == <<poseSink, creatureSink>>

----------------------------------------------------------------------------
(* Program constants *)

cellSize == 2000
wallHalf == 1000
playerHalf == 300
creatureHalf == 400
baseSpeed == 40
sprintMultiplier == 2
rotateSpeed == 1
creatureMoveSpeed == 20
deadZone == 1500
boltSpeed == 800
boltLife == 100
boltHalfLength == 400
glowRadius == 80
cleanupPerFrame == 2
minCreatures == 3
maxCreatures == 5
cellsPerCreature == 10
spawnAngle == 64
FullTurn == 128
maxHealth == 100
maxMana == 100
startMana == 50
castCost == 10
healCost == 15
healAmount == 20

(* Bounds of the model *)

MaxTicks == 2
MaxShots == 1
MaxInputs == 2
WalkTicks == 27
WalkInputs == 2
KeyWindow == 1
PointerTicks == 1
PointerInputs == 3
PointerShots == 1
ReloadLoads == 3
FireTicks == 1
FireInputs == 3
FireShots == 2
FireLoads == 2
GrazeTicks == 34
GrazeInputs == 2
GrazeShots == 1
ForwardTicks == 30
ForwardInputs == 2
PageActions == 6
PageTimers == 1
PageQuits == 1
ReloadTicks == 2
ReloadShots == 1
ChaseTicks == 22
ChaseShots == 1
FlightTicks == 101
FlightShots == 1
ShotWindow == 1
SpawnLoads == 1
DrainLoads == 2
DrainShots == 1

----------------------------------------------------------------------------
(* Arithmetic *)

Abs(n) == IF n < 0 THEN -n ELSE n
Min(a, b) == IF a < b THEN a ELSE b
Max(a, b) == IF a > b THEN a ELSE b

\* n / d rounded to the nearest integer, halves away from zero (d > 0)
RoundDiv(n, d) ==
    IF n >= 0 THEN (2 * n + d) \div (2 * d) ELSE -((2 * (-n) + d) \div (2 * d))

RECURSIVE SqrtSearch(_, _, _)
SqrtSearch(n, lo, hi) ==
    IF lo >= hi THEN lo
    ELSE LET mid == (lo + hi + 1) \div 2
         IN IF mid * mid <= n THEN SqrtSearch(n, mid, hi) ELSE SqrtSearch(n, lo, mid - 1)

\* floor of the square root
ISqrt(n) == SqrtSearch(n, 0, 46340)

QuarterSine ==
    <<0, 49, 98, 147, 195, 243, 290, 337, 383, 428, 471, 514, 556, 596, 634, 672,
      707, 741, 773, 803, 831, 858, 882, 904, 924, 942, 957, 970, 981, 989, 995,
      999, 1000>>

Sin(a) ==
    LET m == a % FullTurn
    IN IF m <= 32 THEN QuarterSine[m + 1]
       ELSE IF m <= 64 THEN QuarterSine[64 - m + 1]
       ELSE IF m <= 96 THEN -QuarterSine[m - 64 + 1]
       ELSE -QuarterSine[128 - m + 1]

Cos(a) == Sin(a + 32)

\* k/1000 * s, rounded
Scale(k, s) == RoundDiv(k * s, 1000)

----------------------------------------------------------------------------
(* Boxes: THREE.Box3 restricted to x and z *)

Box(minX, maxX, minZ, maxZ) ==
    [minX |-> minX, maxX |-> maxX, minZ |-> minZ, maxZ |-> maxZ]

BoxAt(x, z, hx, hz) == Box(x - hx, x + hx, z - hz, z + hz)

intersectsBox(a, b) ==
    ~(b.maxX < a.minX \/ b.minX > a.maxX \/ b.maxZ < a.minZ \/ b.minZ > a.maxZ)

----------------------------------------------------------------------------
(* Grid maps: mapData.walls, rows of cell codes, 0 = open space, 1 = wall *)

Grid(h, w, wallAt(_, _)) ==
    [r \in 1..h |-> [c \in 1..w |-> IF wallAt(r - 1, c - 1) THEN 1 ELSE 0]]

NoWall(r, c) == FALSE
Nook(r, c) == r = 2 \/ (r = 0 /\ c = 1)
Ring8(r, c) == r \in {0, 7} \/ c \in {0, 7}
Step(r, c) == (r = 0 /\ c = 0) \/ (r = 1 /\ c = 1)
Notch(r, c) == r = 0 /\ c >= 6
Pillars8(r, c) == (r \in {1, 3, 5} /\ c \in {1, 3, 5, 6}) \/ (r = 7 /\ c \in {6, 7})

Maps ==
    << Grid(1, 5, NoWall),      \* one open row, no border walls: 5 open cells
       Grid(3, 3, Nook),        \* a wall between two cells of the first row, a
                                \* closing wall row: 5 open cells
       Grid(1, 2, NoWall),      \* 2 open cells
       Grid(8, 8, Ring8),       \* walled ring: 36 open cells
       Grid(7, 7, NoWall),      \* 49 open cells
       Grid(8, 8, Pillars8),    \* 50 open cells
       Grid(8, 8, NoWall),      \* 64 open cells
       Grid(3, 3, Step),        \* the first cell is a wall, a wall ahead of the
                                \* first open cell: 7 open cells
       Grid(2, 8, Notch) >>     \* two rows, the last two cells of the first row
                                \* are walls: 14 open cells

AllMaps == 1..Len(Maps)

Height(g) == Len(g)
Width(g) == Len(g[1])

\* (col - walls[0].length / 2) * cellSize, and the same for rows
CellX(g, col) == col * cellSize - (Width(g) * cellSize) \div 2
CellZ(g, row) == row * cellSize - (Height(g) * cellSize) \div 2

\* the cells in the order of the nested row/col loops
RowMajor(g) ==
    [i \in 1..(Height(g) * Width(g)) |->
        [row |-> (i - 1) \div Width(g), col |-> (i - 1) % Width(g)]]

CellCode(g, row, col) == g[row + 1][col + 1]

OpenCells(g) == SelectSeq(RowMajor(g), LAMBDA c : CellCode(g, c.row, c.col) = 0)
WallCells(g) == SelectSeq(RowMajor(g), LAMBDA c : CellCode(g, c.row, c.col) = 1)

Range(s) == {s[i] : i \in DOMAIN s}

\* createWalls: the collision boxes, one per wall cell
WallBoxes(g) ==
    {BoxAt(CellX(g, c.col), CellZ(g, c.row), wallHalf, wallHalf) : c \in Range(WallCells(g))}

\* the spawn scan as it would be if the last open cell won
SpawnPoseLast(g, p) ==
    IF OpenCells(g) = <<>> THEN p
    ELSE LET c == OpenCells(g)[Len(OpenCells(g))]
         IN [x |-> CellX(g, c.col), z |-> CellZ(g, c.row), angle |-> spawnAngle]

\* createWalls: the player pose after the spawn scan (unchanged without an open cell)
SpawnPose(g, p) ==
    IF OpenCells(g) = <<>> THEN p
    ELSE LET c == OpenCells(g)[1]
         IN [x |-> CellX(g, c.col), z |-> CellZ(g, c.row), angle |-> spawnAngle]

\* createShadowCreatures: openSpaces
openSpaces(g) ==
    [i \in DOMAIN OpenCells(g) |->
        [x |-> CellX(g, OpenCells(g)[i].col), z |-> CellZ(g, OpenCells(g)[i].row)]]

\* the count without its lower clamp
numCreaturesNoMinimum(open) == Min(maxCreatures, Len(open) \div cellsPerCreature)

\* Math.min(5, Math.max(3, Math.floor(openSpaces.length / 10)))
numCreatures(open) ==
    Min(maxCreatures, Max(minCreatures, Len(open) \div cellsPerCreature))

\* a draw with replacement: every place of the list holds the same cell
ShuffledRepeating(open, k, back) == [i \in DOMAIN open |-> open[(k % Len(open)) + 1]]

\* outcomes of openSpaces.sort(() => Math.random() - 0.5): the rotations of the
\* list by k, read forwards or backwards (every permutation of up to 3 cells)
Shuffled(open, k, back) ==
    [i \in DOMAIN open |->
        open[((IF back THEN (k + Len(open) - i) ELSE (k + i - 1)) % Len(open)) + 1]]

Shuffles(open) ==
    {Shuffled(open, k, back) : k \in 0..(Len(open) - 1), back \in BOOLEAN}

\* the rotations only
Rotations(open) == {Shuffled(open, k, FALSE) : k \in 0..(Len(open) - 1)}

\* the unshuffled list and the list rotated by one
TwoShuffles(open) == {Shuffled(open, k, FALSE) : k \in 0..Min(1, Len(open) - 1)}

\* the creature pushed for shuffledSpaces[i - 1]
NewCreature(pos, id) ==
    [id |-> id, x |-> pos.x, z |-> pos.z,
     box |-> Box(pos.x - creatureHalf, pos.x + creatureHalf,
                 pos.z - creatureHalf, pos.z + creatureHalf)]

\* the loop "for i < numCreatures: pos = shuffledSpaces[i]; if (!pos) continue"
SpawnedCreatures(shuffled, firstId) ==
    [i \in 1..Min(numCreatures(shuffled), Len(shuffled)) |->
        NewCreature(shuffled[i], firstId + i - 1)]

Ids(cs) == [i \in DOMAIN cs |-> cs[i].id]

\* a teardown that drops the pool without queueing it
EnqueuedNone(q, cs) == q

\* createShadowCreatures, the forEach over the previous pool: the queue after it
Enqueued(q, cs) == q \o Ids(cs)

----------------------------------------------------------------------------
(* Player movement: checkCollision and handleMovement *)

checkCollision(ws, cs, newX, newZ) ==
    LET playerBox == Box(newX - playerHalf, newX + playerHalf,
                         newZ - playerHalf, newZ + playerHalf)
    IN \/ \E w \in ws : intersectsBox(playerBox, w)
       \/ \E i \in DOMAIN cs : intersectsBox(playerBox, cs[i].box)

moveSpeed(ks) ==
    baseSpeed * (IF "ShiftLeft" \in ks \/ "ShiftRight" \in ks THEN sprintMultiplier ELSE 1)

\* the turn keys, read only while the pointer is not locked
Turned(p, ks, locked) ==
    LET left == ~locked /\ ("ArrowLeft" \in ks \/ "KeyA" \in ks)
        right == ~locked /\ ("ArrowRight" \in ks \/ "KeyD" \in ks)
        a1 == IF left THEN p.angle - rotateSpeed ELSE p.angle
        a2 == IF right THEN a1 + rotateSpeed ELSE a1
    IN [p EXCEPT !.angle = a2 % FullTurn]

\* one intent as it would be if a blocked candidate were retried along z alone
TryMoveSliding(st, want, dx, dz, ws, cs) ==
    IF want /\ ~checkCollision(ws, cs, st.p.x + dx, st.p.z + dz)
    THEN [p |-> [st.p EXCEPT !.x = st.p.x + dx, !.z = st.p.z + dz], moving |-> TRUE]
    ELSE IF want /\ ~checkCollision(ws, cs, st.p.x, st.p.z + dz)
         THEN [p |-> [st.p EXCEPT !.z = st.p.z + dz], moving |-> TRUE]
         ELSE st

\* one "if (key held) { candidate; if (!checkCollision) commit }" block
TryMove(st, want, dx, dz, ws, cs) ==
    IF want /\ ~checkCollision(ws, cs, st.p.x + dx, st.p.z + dz)
    THEN [p |-> [st.p EXCEPT !.x = st.p.x + dx, !.z = st.p.z + dz], moving |-> TRUE]
    ELSE st

\* handleMovement as it would be if a frame counted as moving only when the
\* position has changed
MovedNet(p, ks, locked, ws, cs) ==
    LET s == moveSpeed(ks)
        t == Turned(p, ks, locked)
        sn == Scale(Sin(t.angle), s)
        cn == Scale(Cos(t.angle), s)
        s0 == [p |-> t, moving |-> FALSE]
        s1 == TryMove(s0, "ArrowUp" \in ks \/ "KeyW" \in ks, -sn, -cn, ws, cs)
        s2 == TryMove(s1, "ArrowDown" \in ks \/ "KeyS" \in ks, sn, cn, ws, cs)
        s3 == TryMove(s2, "KeyA" \in ks /\ locked, -cn, sn, ws, cs)
        s4 == TryMove(s3, "KeyD" \in ks /\ locked, cn, -sn, ws, cs)
        s5 == TryMove(s4, "KeyQ" \in ks /\ ~locked, -cn, sn, ws, cs)
        s6 == TryMove(s5, "KeyE" \in ks /\ ~locked, cn, -sn, ws, cs)
    IN [s6 EXCEPT !.moving = (s6.p.x # p.x \/ s6.p.z # p.z)]

\* handleMovement up to the pose it reports: [p, moving]
Moved(p, ks, locked, ws, cs) ==
    LET s == moveSpeed(ks)
        t == Turned(p, ks, locked)
        sn == Scale(Sin(t.angle), s)
        cn == Scale(Cos(t.angle), s)
        s0 == [p |-> t, moving |-> FALSE]
        s1 == TryMove(s0, "ArrowUp" \in ks \/ "KeyW" \in ks, -sn, -cn, ws, cs)
        s2 == TryMove(s1, "ArrowDown" \in ks \/ "KeyS" \in ks, sn, cn, ws, cs)
        s3 == TryMove(s2, "KeyA" \in ks /\ locked, -cn, sn, ws, cs)
        s4 == TryMove(s3, "KeyD" \in ks /\ locked, cn, -sn, ws, cs)
        s5 == TryMove(s4, "KeyQ" \in ks /\ ~locked, -cn, sn, ws, cs)
        s6 == TryMove(s5, "KeyE" \in ks /\ ~locked, cn, -sn, ws, cs)
    IN s6

----------------------------------------------------------------------------
(* Projectiles: shoot and updateProjectiles *)

\* shoot: the entry pushed to projectilesRef
Bolt(p, id) ==
    [id |-> id, x |-> p.x, z |-> p.z,
     vx |-> -Scale(Sin(p.angle), boltSpeed), vz |-> -Scale(Cos(p.angle), boltSpeed),
     angle |-> p.angle, life |-> boltLife, age |-> 0]

\* Box3().setFromObject(projectile.mesh): the bolt lies along its direction
projectileBox(pr) ==
    BoxAt(pr.x, pr.z,
          Scale(Abs(Sin(pr.angle)), boltHalfLength) + Scale(Abs(Cos(pr.angle)), glowRadius),
          Scale(Abs(Cos(pr.angle)), boltHalfLength) + Scale(Abs(Sin(pr.angle)), glowRadius))

\* an update that moves the projectile and forgets its life
AdvancedAgeless(pr) ==
    [pr EXCEPT !.x = pr.x + pr.vx, !.z = pr.z + pr.vz, !.age = pr.age + 1]

\* position.add(velocity); life--   (age counts the updates, for the record)
Advanced(pr) ==
    [pr EXCEPT !.x = pr.x + pr.vx, !.z = pr.z + pr.vz, !.life = pr.life - 1,
               !.age = pr.age + 1]

hitWall(box, ws) == \E w \in ws : intersectsBox(box, w)

SetMax(S) == CHOOSE m \in S : \A n \in S : n <= m

\* the backwards scan without its break: every creature the box intersects
HitCreaturesAll(cs, box) == {i \in DOMAIN cs : intersectsBox(box, cs[i].box)}

\* the creature loop as it would be if it ran from index 0 upwards
HitCreaturesForward(cs, box) ==
    LET hit == {i \in DOMAIN cs : intersectsBox(box, cs[i].box)}
    IN IF hit = {} THEN {} ELSE {CHOOSE m \in hit : \A n \in hit : m <= n}

\* the backwards scan with its break: the indices spliced out for one projectile
HitCreatures(cs, box) ==
    LET hit == {i \in DOMAIN cs : intersectsBox(box, cs[i].box)}
    IN IF hit = {} THEN {} ELSE {SetMax(hit)}

\* a hit that queues the creature and leaves it in the pool
WithoutNone(cs, gone, i) == cs

RECURSIVE Without(_, _, _)
Without(cs, gone, i) ==
    IF i > Len(cs) THEN <<>>
    ELSE (IF i \in gone THEN <<>> ELSE <<cs[i]>>) \o Without(cs, gone, i + 1)

RECURSIVE Picked(_, _, _)
\* the ids at the indices `gone`, highest index first (the order of the scan)
Picked(cs, gone, i) ==
    IF i < 1 THEN <<>>
    ELSE (IF i \in gone THEN <<cs[i].id>> ELSE <<>>) \o Picked(cs, gone, i - 1)

\* how many creature boxes a box intersects
Touching(cs, box) == Cardinality({i \in DOMAIN cs : intersectsBox(box, cs[i].box)})

\* a retirement test that lets the life run below zero
ExpiredLate(pr, wallHit, creatureHit) == wallHit \/ creatureHit \/ pr.life < 0

\* the retirement test of the filter callback
\* the creature loop as it would be if a wall hit ended the tests
CreatureScanUnlessWall(cs, box, wallHit) ==
    IF wallHit THEN {} ELSE HitCreatures(cs, box)

\* updateProjectiles: the creature loop follows the wall loop whatever hitWall is
CreatureScan(cs, box, wallHit) == HitCreatures(cs, box)

Expired(pr, wallHit, creatureHit) == wallHit \/ creatureHit \/ pr.life <= 0

\* the filter callback for one projectile, on the running state
\* acc = [kept, cs, queue, retired, removed, advanced]; retired keeps, per retired
\* projectile, the hit flags and the life it was retired with; removed keeps, per
\* creature spliced out, the projectile that hit it
FilterOne(acc, pr0, ws) ==
    LET pr == Advanced(pr0)
        box == projectileBox(pr)
        wallHit == hitWall(box, ws)
        gone == CreatureScan(acc.cs, box, wallHit)
        creatureHit == gone # {}
        out == Expired(pr, wallHit, creatureHit)
    IN [kept |-> IF out THEN acc.kept ELSE Append(acc.kept, pr),
        cs |-> Without(acc.cs, gone, 1),
        queue |-> acc.queue \o Picked(acc.cs, gone, Len(acc.cs)),
        retired |-> IF out
                    THEN acc.retired \cup {[id |-> pr.id, hitWall |-> wallHit,
                                            hitCreature |-> creatureHit,
                                            life |-> pr.life, age |-> pr.age]}
                    ELSE acc.retired,
        removed |-> acc.removed \o
                    [j \in 1..Cardinality(gone) |->
                        [creature |-> Picked(acc.cs, gone, Len(acc.cs))[j], by |-> pr.id,
                         touching |-> Touching(acc.cs, box)]],
        advanced |-> Append(acc.advanced, pr.id),
        contacts |-> Append(acc.contacts, [id |-> pr.id, wall |-> wallHit,
                                           touching |-> Touching(acc.cs, box)])]

RECURSIVE Filtered(_, _, _, _)
Filtered(acc, ps, i, ws) ==
    IF i > Len(ps) THEN acc ELSE Filtered(FilterOne(acc, ps[i], ws), ps, i + 1, ws)

----------------------------------------------------------------------------
(* Creature AI: updateCreatures *)

\* Math.floor((v + (n * cellSize) / 2) / cellSize)
ToGrid(v, n) == (v + (n * cellSize) \div 2) \div cellSize

InMatrix(g, gridX, gridZ) ==
    gridX >= 0 /\ gridX < Width(g) /\ gridZ >= 0 /\ gridZ < Height(g)

\* an AI step that leaves the map matrix out and relies on the wall boxes
GridOpenUnchecked(g, gridX, gridZ) == TRUE

\* a grid test that blocks wall cells only
GridOpenOutside(g, gridX, gridZ) == ~InMatrix(g, gridX, gridZ) \/ CellCode(g, gridZ, gridX) = 0

\* the grid test of the AI step
GridOpen(g, gridX, gridZ) == InMatrix(g, gridX, gridZ) /\ CellCode(g, gridZ, gridX) = 0

\* the candidate as it would be without the dead zone
CandidateNoDeadZone(c, p) ==
    LET dx == p.x - c.x
        dz == p.z - c.z
        d2 == dx * dx + dz * dz
        distance == ISqrt(d2)
    IN IF d2 > 0
       THEN [far |-> TRUE, x |-> c.x + RoundDiv(dx * creatureMoveSpeed, distance),
             z |-> c.z + RoundDiv(dz * creatureMoveSpeed, distance)]
       ELSE [far |-> FALSE, x |-> c.x, z |-> c.z]

\* the candidate of one creature: [far, x, z], far = beyond the dead zone
Candidate(c, p) ==
    LET dx == p.x - c.x
        dz == p.z - c.z
        d2 == dx * dx + dz * dz
        distance == ISqrt(d2)
    IN IF d2 > deadZone * deadZone
       THEN [far |-> TRUE, x |-> c.x + RoundDiv(dx * creatureMoveSpeed, distance),
             z |-> c.z + RoundDiv(dz * creatureMoveSpeed, distance)]
       ELSE [far |-> FALSE, x |-> c.x, z |-> c.z]

\* the creatures whose candidate converts to a cell outside the matrix
OffGrid(cs, g, p) ==
    {[id |-> cs[i].id, x |-> cs[i].x, z |-> cs[i].z] : i \in
        {k \in DOMAIN cs :
            /\ Candidate(cs[k], p).far
            /\ ~InMatrix(g, ToGrid(Candidate(cs[k], p).x, Width(g)),
                            ToGrid(Candidate(cs[k], p).z, Height(g)))}}

\* the callback as it would be if an accepted step left the collision box
\* where it was
CreatureStepStaleBox(c, g, ws, p) ==
    LET cand == Candidate(c, p)
    IN IF cand.far
          /\ GridOpen(g, ToGrid(cand.x, Width(g)), ToGrid(cand.z, Height(g)))
          /\ ~hitWall(BoxAt(cand.x, cand.z, creatureHalf, creatureHalf), ws)
       THEN [c EXCEPT !.x = cand.x, !.z = cand.z]
       ELSE c

\* the callback as it would be with the grid test alone
CreatureStepGridOnly(c, g, ws, p) ==
    LET cand == Candidate(c, p)
    IN IF cand.far /\ GridOpen(g, ToGrid(cand.x, Width(g)), ToGrid(cand.z, Height(g)))
       THEN [c EXCEPT !.x = cand.x, !.z = cand.z,
                      !.box = BoxAt(cand.x, cand.z, creatureHalf, creatureHalf)]
       ELSE c

\* the forEach callback for one creature
CreatureStep(c, g, ws, p) ==
    LET cand == Candidate(c, p)
        newX == cand.x
        newZ == cand.z
        creatureBox == Box(newX - creatureHalf, newX + creatureHalf,
                           newZ - creatureHalf, newZ + creatureHalf)
    IN IF cand.far
          /\ GridOpen(g, ToGrid(newX, Width(g)), ToGrid(newZ, Height(g)))
          /\ ~hitWall(creatureBox, ws)
       THEN [c EXCEPT !.x = newX, !.z = newZ,
                      !.box = BoxAt(newX, newZ, creatureHalf, creatureHalf)]
       ELSE c

Positions(cs) == [i \in DOMAIN cs |-> [x |-> cs[i].x, z |-> cs[i].z]]

\* the list a creature stage would emit if it read each creature but the first
\* before its step
EmittedPositionsMixed(before, after) ==
    [i \in DOMAIN after |-> IF i = 1 THEN Positions(after)[i] ELSE Positions(before)[i]]

\* the argument of onCreatureUpdate: the pool mapped to positions after the
\* forEach; before is the pool at the start of updateCreatures, after at its end
EmittedPositions(before, after) == Positions(after)

----------------------------------------------------------------------------
(* Cleanup: processCleanupQueue *)

\* a drain that takes the whole queue at once
itemsToCleanAll(q) == q

\* a drain that releases the newest entries while the oldest leave the queue
itemsToCleanLast(q) == SubSeq(q, Len(q) - Min(cleanupPerFrame, Len(q)) + 1, Len(q))

\* a drain that takes one entry
itemsToCleanOne(q) == SubSeq(q, 1, Min(1, Len(q)))

\* cleanupQueueRef.current.splice(0, 2): the entries taken
itemsToClean(q) == SubSeq(q, 1, Min(cleanupPerFrame, Len(q)))
Remaining(q) == SubSeq(q, Len(itemsToClean(q)) + 1, Len(q))

\* the meshes of a cleanup entry that processCleanupQueue disposes, in the
\* order of its statements (the light is in the entry and is not touched)
DisposedMeshes == <<"body", "leftEye", "rightEye">>

\* createShadowCreatures: the geometry and the material a mesh of creature id
\* was built with; one eyeGeometry and one eyeMaterial serve both eyes
MeshGeometry(id, mesh) ==
    [creature |-> id, object |-> IF mesh = "body" THEN "bodyGeometry" ELSE "eyeGeometry"]
MeshMaterial(id, mesh) ==
    [creature |-> id, object |-> IF mesh = "body" THEN "bodyMaterial" ELSE "eyeMaterial"]

\* the geometry and material objects created for creature id
OwnedResources(id) ==
    {MeshGeometry(id, mesh) : mesh \in Range(DisposedMeshes)}
        \cup {MeshMaterial(id, mesh) : mesh \in Range(DisposedMeshes)}

\* the forEach callback of processCleanupQueue for one entry: the objects that
\* dispose() is called on, call by call
DisposeCalls(id) ==
    << MeshGeometry(id, "body"), MeshMaterial(id, "body"),
       MeshGeometry(id, "leftEye"), MeshMaterial(id, "leftEye"),
       MeshGeometry(id, "rightEye"), MeshMaterial(id, "rightEye") >>

RECURSIVE Disposals(_, _)
\* the dispose() calls made for the released entries rel[i..], in order
Disposals(rel, i) ==
    IF i > Len(rel) THEN <<>> ELSE DisposeCalls(rel[i]) \o Disposals(rel, i + 1)

----------------------------------------------------------------------------
(* State machine *)

NoFrame ==
    [stages |-> <<>>, removed |-> <<>>, advanced |-> <<>>, liveAtStart |-> 0,
     queueAtStart |-> <<>>, releasedAtStart |-> 0, poseEmits |-> 0, creatureEmits |-> 0,
     offGrid |-> {}, contacts |-> <<>>]

\* the history record of an animate() call that starts with ps live, q queued and
\* n entries released so far
NewFrame(ps, q, n) ==
    [NoFrame EXCEPT !.liveAtStart = Len(ps), !.queueAtStart = q, !.releasedAtStart = n]

Staged(f, name) == [f EXCEPT !.stages = Append(f.stages, name)]

\* animate with the creature update ahead of the projectile update
StageAfterCreaturesFirst(stage) ==
    CASE stage = "movement" -> "creatures"
      [] stage = "creatures" -> "projectiles"
      [] stage = "projectiles" -> "cleanup"
      [] stage = "cleanup" -> "draw"

\* the body of animate: the call that follows each call
StageAfter(stage) ==
    CASE stage = "movement" -> "projectiles"
      [] stage = "projectiles" -> "creatures"
      [] stage = "creatures" -> "cleanup"
      [] stage = "cleanup" -> "draw"

\* the DungeonScene component mounted with mapData = null and the welcome screen
\* shown (page.tsx: useState(null), useState(true))
Init ==
    /\ mapData = 0
    /\ mapDataRef = 0
    /\ scene = FALSE
    /\ registered = FALSE
    /\ clickInv = FALSE
    /\ inventoryVisible = TRUE
    /\ isLocked = FALSE
    /\ lockElement = FALSE
    /\ keys = {}
    /\ player = [x |-> 0, z |-> 0, angle |-> 0]
    /\ isMoving = FALSE
    /\ walls = {}
    /\ creatures = <<>>
    /\ projectiles = <<>>
    /\ cleanupQueue = <<>>
    /\ released = <<>>
    /\ retired = {}
    /\ poseSink = [x |-> 0, z |-> 0, angle |-> 0]
    /\ creatureSink = <<>>
    /\ pc = "idle"
    /\ passesLeft = 0
    /\ loops = 0
    /\ nextId = 1
    /\ nextProj = 1
    /\ ticks = 0
    /\ loads = 0
    /\ inputs = [n |-> 0, triggers |-> 0]
    /\ drain = [n |-> 0, passes |-> 0, reloaded |-> <<>>]
    /\ frame = NoFrame
    /\ page = [showWelcome |-> TRUE, showInventory |-> FALSE,
               isLoadingInventory |-> FALSE, tabTimers |-> 0, lockTimers |-> 0,
               quits |-> 0, saving |-> 0, reloading |-> FALSE, alive |-> TRUE,
               loaded |-> FALSE, health |-> maxHealth, mana |-> startMana,
               seenHealth |-> maxHealth, seenMana |-> startMana, actions |-> 0]

\* the mapData effect with a map: teardown of the previous effect, scene setup,
\* createDungeonEnvironment, createTorchLights -> createShadowCreatures, listener
\* registration.  The effect also calls animate() itself: that call is the pass
\* with passesLeft = 0, which the stage actions below run before anything else.
LoadMap(m, shuffled, maxLoads) ==
    LET g == Maps[m]
        fresh == SpawnedCreatures(shuffled, nextId)
        queued == Enqueued(cleanupQueue, creatures)
    IN /\ pc = "idle"
       /\ loads < maxLoads
       /\ mapData' = m
       /\ mapDataRef' = m
       /\ scene' = TRUE
       /\ registered' = TRUE
       /\ clickInv' = inventoryVisible
       /\ lockElement' = FALSE
       /\ walls' = WallBoxes(g)
       /\ player' = SpawnPose(g, player)
       /\ cleanupQueue' = queued
       /\ creatures' = fresh
       /\ nextId' = nextId + Len(fresh)
       /\ loops' = loops + 1
       /\ loads' = loads + 1
       /\ pc' = "movement"
       /\ passesLeft' = 0
       /\ drain' = IF creatures = <<>> THEN [drain EXCEPT !.reloaded = <<>>]
                   ELSE [n |-> Len(queued), passes |-> 0, reloaded |-> Ids(creatures)]
       /\ UNCHANGED <<inventoryVisible, page, isLocked, keys, isMoving, projectiles, released,
                      retired, sinkVars, nextProj, ticks, inputs, frame>>

\* the mapData effect with mapData = null: only the previous effect's teardown
ClearMap(maxLoads) ==
    /\ pc = "idle"
    /\ loads < maxLoads
    /\ mapData # 0
    /\ mapData' = 0
    /\ registered' = FALSE
    /\ lockElement' = FALSE
    /\ loads' = loads + 1
    /\ UNCHANGED <<page, mapDataRef, scene, clickInv, inventoryVisible, isLocked, keys, player,
                   isMoving, walls, creatures, projectiles, cleanupQueue, released,
                   retired, sinkVars, pc, passesLeft, loops, nextId, nextProj, ticks,
                   inputs, drain, frame>>

\* the display refresh: every live loop's animate callback runs once
Refresh(maxTicks) ==
    /\ pc = "idle"
    /\ loops > 0
    /\ ticks < maxTicks
    /\ ticks' = ticks + 1
    /\ pc' = "movement"
    /\ passesLeft' = loops
    /\ UNCHANGED <<page, worldVars, inputVars, player, isMoving, creatures, projectiles,
                   cleanupQueue, released, retired, sinkVars, nextProj, inputs, drain,
                   frame>>

\* the display refresh of a frame loop that runs on and on; the refreshes are
\* not counted
RefreshOn ==
    /\ pc = "idle"
    /\ loops > 0
    /\ pc' = "movement"
    /\ passesLeft' = loops
    /\ UNCHANGED <<page, worldVars, inputVars, player, isMoving, creatures, projectiles,
                   cleanupQueue, released, retired, sinkVars, nextProj, ticks, inputs,
                   drain, frame>>

\* the pose a movement stage would emit if it read the pose before its intents
EmittedPoseStale(before, after) == before

\* the arguments of onPlayerMove(player.x, player.y, player.angle), read at the
\* end of handleMovement: before is the pose at its start, after the pose at its end
EmittedPose(before, after) == after

\* animate: handleMovement()
HandleMovement ==
    LET f == NewFrame(projectiles, cleanupQueue, Len(released))
    IN
    /\ pc = "movement"
    /\ pc' = StageAfter("movement")
    /\ IF scene
       THEN LET r == Moved(player, keys, isLocked, walls, creatures)
            IN /\ player' = r.p
               /\ isMoving' = r.moving
               /\ poseSink' = EmittedPose(player, r.p)
               /\ frame' = [Staged(f, "movement") EXCEPT !.poseEmits = @ + 1]
       ELSE /\ frame' = Staged(f, "movement")
            /\ UNCHANGED <<player, isMoving, poseSink>>
    /\ UNCHANGED <<page, worldVars, inputVars, creatures, projectiles, cleanupQueue, released,
                   retired, creatureSink, passesLeft, nextProj, ticks, inputs, drain>>

\* animate: updateProjectiles()
UpdateProjectiles ==
    /\ pc = "projectiles"
    /\ pc' = StageAfter("projectiles")
    /\ IF scene
       THEN LET acc0 == [kept |-> <<>>, cs |-> creatures, queue |-> cleanupQueue,
                         retired |-> retired, removed |-> <<>>, advanced |-> <<>>,
                         contacts |-> <<>>]
                acc == Filtered(acc0, projectiles, 1, walls)
            IN /\ projectiles' = acc.kept
               /\ creatures' = acc.cs
               /\ cleanupQueue' = acc.queue
               /\ retired' = acc.retired
               /\ frame' = [Staged(frame, "projectiles") EXCEPT
                               !.removed = acc.removed, !.advanced = acc.advanced,
                               !.contacts = acc.contacts]
               /\ drain' = IF acc.removed = <<>> THEN drain
                           ELSE [drain EXCEPT !.n = Len(acc.queue), !.passes = 0]
       ELSE /\ frame' = Staged(frame, "projectiles")
            /\ UNCHANGED <<projectiles, creatures, cleanupQueue, retired, drain>>
    /\ UNCHANGED <<page, worldVars, inputVars, player, isMoving, released, sinkVars,
                   passesLeft, nextProj, ticks, inputs>>

\* animate: updateCreatures()
UpdateCreatures ==
    /\ pc = "creatures"
    /\ pc' = StageAfter("creatures")
    /\ IF mapDataRef # 0
       THEN /\ creatures' = [i \in DOMAIN creatures |->
                               CreatureStep(creatures[i], Maps[mapDataRef], walls, player)]
            /\ creatureSink' = EmittedPositions(creatures, creatures')
            /\ frame' = [Staged(frame, "creatures") EXCEPT
                            !.creatureEmits = @ + 1,
                            !.offGrid = OffGrid(creatures, Maps[mapDataRef], player)]
       ELSE /\ frame' = Staged(frame, "creatures")
            /\ UNCHANGED <<creatures, creatureSink>>
    /\ UNCHANGED <<page, worldVars, inputVars, player, isMoving, projectiles, cleanupQueue,
                   released, retired, poseSink, passesLeft, nextProj, ticks, inputs, drain>>

\* processCleanupQueue() as it would be if the drain also turned the view
ProcessCleanupQueueTurning ==
    /\ pc = "cleanup"
    /\ pc' = StageAfter("cleanup")
    /\ released' = released \o itemsToClean(cleanupQueue)
    /\ cleanupQueue' = Remaining(cleanupQueue)
    /\ drain' = IF cleanupQueue = <<>> THEN drain ELSE [drain EXCEPT !.passes = @ + 1]
    /\ frame' = Staged(frame, "cleanup")
    /\ player' = [player EXCEPT !.angle = (@ + rotateSpeed) % FullTurn]
    /\ UNCHANGED <<page, worldVars, inputVars, isMoving, creatures, projectiles,
                   retired, sinkVars, passesLeft, nextProj, ticks, inputs>>

\* animate: processCleanupQueue()
ProcessCleanupQueue ==
    /\ pc = "cleanup"
    /\ pc' = StageAfter("cleanup")
    /\ released' = released \o itemsToClean(cleanupQueue)
    /\ cleanupQueue' = Remaining(cleanupQueue)
    /\ drain' = IF cleanupQueue = <<>> THEN drain ELSE [drain EXCEPT !.passes = @ + 1]
    /\ frame' = Staged(frame, "cleanup")
    /\ UNCHANGED <<page, worldVars, inputVars, player, isMoving, creatures, projectiles,
                   retired, sinkVars, passesLeft, nextProj, ticks, inputs>>

\* animate: renderer.render(scene, camera); then the next loop's callback, if any
Render ==
    /\ pc = "draw"
    /\ frame' = Staged(frame, "draw")
    /\ IF passesLeft > 1
       THEN /\ pc' = "movement"
            /\ passesLeft' = passesLeft - 1
       ELSE /\ pc' = "idle"
            /\ passesLeft' = 0
    /\ UNCHANGED <<page, worldVars, inputVars, player, isMoving, creatures, projectiles,
                   cleanupQueue, released, retired, sinkVars, nextProj, ticks, inputs,
                   drain>>

\* shoot() as it would be if an open inventory held fire
ShootUnlessInventory ==
    IF scene /\ ~inventoryVisible
    THEN /\ projectiles' = Append(projectiles, Bolt(player, nextProj))
         /\ nextProj' = nextProj + 1
    ELSE UNCHANGED <<projectiles, nextProj>>

\* shoot(), on the refs
Shoot ==
    IF scene
    THEN /\ projectiles' = Append(projectiles, Bolt(player, nextProj))
         /\ nextProj' = nextProj + 1
    ELSE UNCHANGED <<projectiles, nextProj>>

\* window.dungeonShoot(), called by the page's handleShoot
DungeonShoot(maxShots, window) ==
    /\ pc = "idle"
    /\ registered
    /\ nextProj <= maxShots
    /\ ticks <= window
    /\ Shoot
    /\ inputs' = [inputs EXCEPT !.triggers = @ + 1]
    /\ UNCHANGED <<page, worldVars, inputVars, player, isMoving, creatures, cleanupQueue,
                   released, retired, sinkVars, pc, passesLeft, ticks, drain, frame>>

KeyCodes ==
    {"ArrowUp", "ArrowDown", "ArrowLeft", "ArrowRight", "KeyA", "KeyD", "KeyQ", "KeyE",
     "ShiftLeft", "Space"}

\* handleKeyDown
KeyDown(code, maxInputs, maxShots) ==
    /\ pc = "idle"
    /\ registered
    /\ inputs.n < maxInputs
    /\ code \notin keys \/ code = "Space"
    /\ inputs' = [n |-> inputs.n + 1,
                  triggers |-> inputs.triggers + (IF code = "Space" THEN 1 ELSE 0)]
    /\ keys' = keys \cup {code}
    /\ IF code = "Space"
       THEN nextProj <= maxShots /\ Shoot
       ELSE UNCHANGED <<projectiles, nextProj>>
    /\ UNCHANGED <<page, worldVars, clickInv, inventoryVisible, isLocked, lockElement, player,
                   isMoving, creatures, cleanupQueue, released, retired, sinkVars, pc,
                   passesLeft, ticks, drain, frame>>

\* handleKeyUp
KeyUp(code) ==
    /\ pc = "idle"
    /\ registered
    /\ code \in keys
    /\ keys' = keys \ {code}
    /\ UNCHANGED <<page, worldVars, clickInv, inventoryVisible, isLocked, lockElement, player,
                   isMoving, creatures, projectiles, cleanupQueue, released, retired,
                   sinkVars, pc, passesLeft, nextProj, ticks, inputs, drain, frame>>

\* handleClick, as installed by the last map load
Click(maxInputs, maxShots) ==
    /\ pc = "idle"
    /\ registered
    /\ inputs.n < maxInputs
    /\ inputs' = [n |-> inputs.n + 1,
                  triggers |-> inputs.triggers + (IF isLocked THEN 1 ELSE 0)]
    /\ IF isLocked
       THEN /\ nextProj <= maxShots
            /\ Shoot
            /\ UNCHANGED lockElement
       ELSE /\ lockElement' = (lockElement \/ ~clickInv)
            /\ UNCHANGED <<projectiles, nextProj>>
    /\ UNCHANGED <<page, worldVars, clickInv, inventoryVisible, isLocked, keys, player,
                   isMoving, creatures, cleanupQueue, released, retired, sinkVars, pc,
                   passesLeft, ticks, drain, frame>>

\* handlePointerLockChange, on the browser's pointerlockchange event
PointerLockChange ==
    /\ pc = "idle"
    /\ registered
    /\ isLocked # lockElement
    /\ isLocked' = lockElement
    /\ UNCHANGED <<page, worldVars, clickInv, inventoryVisible, lockElement, keys, player,
                   isMoving, creatures, projectiles, cleanupQueue, released, retired,
                   sinkVars, pc, passesLeft, nextProj, ticks, inputs, drain, frame>>

\* the user leaves pointer lock (Escape)
ReleaseLock(maxInputs) ==
    /\ pc = "idle"
    /\ lockElement
    /\ inputs.n < maxInputs
    /\ inputs' = [inputs EXCEPT !.n = @ + 1]
    /\ lockElement' = FALSE
    /\ UNCHANGED <<page, worldVars, clickInv, inventoryVisible, isLocked, keys, player,
                   isMoving, creatures, projectiles, cleanupQueue, released, retired,
                   sinkVars, pc, passesLeft, nextProj, ticks, drain, frame>>

\* movementX * sensitivity, in angle units, for the mouse moves the model makes
MouseTurns == {-16, 16}

\* handleMouseMove with movementY = 0
MouseMove(turn, maxInputs) ==
    /\ pc = "idle"
    /\ registered
    /\ isLocked
    /\ inputs.n < maxInputs
    /\ inputs' = [inputs EXCEPT !.n = @ + 1]
    /\ player' = [player EXCEPT !.angle = (@ - turn) % FullTurn]
    /\ UNCHANGED <<page, worldVars, inputVars, isMoving, creatures, projectiles, cleanupQueue,
                   released, retired, sinkVars, pc, passesLeft, nextProj, ticks, drain,
                   frame>>

\* the page changes the inventoryVisible prop; the inventoryVisible effect runs
SetInventoryVisible(b) ==
    /\ pc = "idle"
    /\ inventoryVisible # b
    /\ inventoryVisible' = b
    /\ lockElement' = IF b /\ isLocked THEN FALSE ELSE lockElement
    /\ UNCHANGED <<page, worldVars, clickInv, isLocked, keys, player, isMoving, creatures,
                   projectiles, cleanupQueue, released, retired, sinkVars, pc,
                   passesLeft, nextProj, ticks, inputs, drain, frame>>

-----------------------------------------------------------------------------
(* The page around the scene (src/app/page.tsx, DungeonCrawler): the welcome,  *)
(* loading and inventory overlays, the Tab key, the quit button, the quick     *)
(* actions.  gameMessage, loadingProgress and the console are display only     *)
(* and left out.                                                               *)

\* a state update of the page is committed: the page re-renders, the scene
\* gets inventoryVisible = showWelcome || showInventory and runs its
\* inventoryVisible effect; when one of the three overlay flags has changed the
\* keydown/keypress effect re-registers its listeners, whose handleAction then
\* reads the health and mana of this render
Flags(q) == <<q.showInventory, q.isLoadingInventory, q.showWelcome>>

Close(q) ==
    IF Flags(q) # Flags(page) THEN [q EXCEPT !.seenMana = q.mana, !.seenHealth = q.health]
    ELSE q

Commit(q) ==
    /\ pc = "idle"
    /\ page.alive
    /\ page' = Close(q)
    /\ inventoryVisible' = (q.showWelcome \/ q.showInventory)
    /\ lockElement' = IF inventoryVisible' /\ ~inventoryVisible /\ isLocked
                      THEN FALSE ELSE lockElement
    /\ UNCHANGED <<worldVars, clickInv, isLocked, keys, player, isMoving, creatures,
                   projectiles, cleanupQueue, released, retired, sinkVars, pc,
                   passesLeft, nextProj, ticks, inputs, drain, frame>>

\* loadPlayerState resolves with a stored health (playerData.health || 100)
StoredHealth == {60, 100}

LoadPlayerState(h) ==
    /\ ~page.loaded
    /\ Commit([page EXCEPT !.loaded = TRUE, !.health = h])

\* handleKeyDown with event.key = "Tab", as registered for the current flags
TabKey ==
    /\ ~page.showInventory /\ ~page.isLoadingInventory /\ ~page.showWelcome
    /\ Commit([page EXCEPT !.isLoadingInventory = TRUE, !.tabTimers = @ + 1])

\* the timeout of handleKeyDown, INVENTORY_LOADING_DELAY_MS later
LoadingTimeout ==
    /\ page.tabTimers > 0
    /\ Commit([page EXCEPT !.tabTimers = @ - 1, !.isLoadingInventory = FALSE,
                           !.showInventory = TRUE])

\* handleWelcomeAction, from the two buttons of the welcome overlay
WelcomeAction(action, maxTimers) ==
    /\ page.showWelcome
    /\ IF action = "inventory"
       THEN Commit([page EXCEPT !.showWelcome = FALSE, !.showInventory = TRUE])
       ELSE /\ page.lockTimers < maxTimers
            /\ Commit([page EXCEPT !.showWelcome = FALSE, !.lockTimers = @ + 1])

\* handleCloseInventory, from the close button of the inventory overlay
CloseInventory(maxTimers) ==
    /\ page.showInventory
    /\ page.lockTimers < maxTimers
    /\ Commit([page EXCEPT !.showInventory = FALSE, !.lockTimers = @ + 1])

\* the 100 ms timeout of handleWelcomeAction("game") and handleCloseInventory:
\* canvas.requestPointerLock() if the scene has put up its canvas
LockTimeout ==
    /\ pc = "idle"
    /\ page.alive
    /\ page.lockTimers > 0
    /\ page' = [page EXCEPT !.lockTimers = @ - 1]
    /\ lockElement' = (lockElement \/ registered)
    /\ UNCHANGED <<worldVars, clickInv, inventoryVisible, isLocked, keys, player,
                   isMoving, creatures, projectiles, cleanupQueue, released, retired,
                   sinkVars, pc, passesLeft, nextProj, ticks, inputs, drain, frame>>

\* handleQuitGame from the quit button of the inventory overlay, confirmed, up
\* to its await savePlayerState()
QuitGame(maxQuits) ==
    /\ page.showInventory
    /\ page.quits < maxQuits
    /\ Commit([page EXCEPT !.quits = @ + 1, !.saving = @ + 1])

\* handleQuitGame after the await: back to the welcome overlay, reload in 2 s
QuitSaved ==
    /\ page.saving > 0
    /\ Commit([page EXCEPT !.saving = @ - 1, !.showInventory = FALSE,
                           !.showWelcome = TRUE, !.reloading = TRUE])

\* window.location.reload(): this page is gone
PageReload ==
    /\ page.reloading
    /\ Commit([page EXCEPT !.alive = FALSE])

\* handleAction("cast") and handleAction("heal"): from the keypress listener
\* (keys 3 and 4), which reads the playerState of the render that registered it,
\* or from a button, which reads the playerState of the current render
QuickActions == {"cast", "heal"}

handleAction(action, fromKey, maxActions) ==
    LET seen == IF fromKey THEN [mana |-> page.seenMana, health |-> page.seenHealth]
                ELSE [mana |-> page.mana, health |-> page.health]
        counted == [page EXCEPT !.actions = @ + 1]
    IN /\ page.actions < maxActions
       /\ IF action = "cast"
          THEN IF seen.mana >= castCost
               THEN Commit([counted EXCEPT !.mana = @ - castCost])
               ELSE Commit(counted)
          ELSE IF seen.mana >= healCost /\ seen.health < maxHealth
               THEN Commit([counted EXCEPT !.mana = @ - healCost,
                                           !.health = Min(@ + healAmount, maxHealth)])
               ELSE Commit(counted)

\* one animate() call, stage by stage
Animate ==
    \/ HandleMovement
    \/ UpdateProjectiles
    \/ UpdateCreatures
    \/ ProcessCleanupQueue
    \/ Render

\* the first map load of the component
FirstLoad(m, shuffled) == ~scene /\ LoadMap(m, shuffled, loads + 1)

\* one map session on the second map, driven from the keyboard
Next ==
    \/ \E sh \in TwoShuffles(openSpaces(Maps[2])) : FirstLoad(2, sh)
    \/ Refresh(MaxTicks)
    \/ Animate
    \/ DungeonShoot(MaxShots, MaxTicks)
    \/ \E code \in KeyCodes : KeyDown(code, MaxInputs, MaxShots)
    \/ \E code \in KeyCodes : KeyUp(code)

Spec == Init /\ [][Next]_vars

\* the keys of the walk: a turn, a step back and a side step
StepKeys == {"ArrowRight", "ArrowDown", "KeyQ"}

\* one map session on the second map with keys pressed and released in the
\* first frames and held from then on: walks of many frames
NextWalk ==
    \/ \E sh \in TwoShuffles(openSpaces(Maps[2])) : FirstLoad(2, sh)
    \/ Refresh(WalkTicks)
    \/ Animate
    \/ \E code \in StepKeys : ticks <= KeyWindow /\ KeyDown(code, WalkInputs, 0)
    \/ \E code \in StepKeys : ticks <= KeyWindow /\ KeyUp(code)

SpecWalk == Init /\ [][NextWalk]_vars

\* the keys whose meaning depends on pointer lock
LockKeys == {"KeyA", "KeyQ"}

\* one map session with the pointer: lock, mouse look, click to fire, the
\* inventory prop
NextPointer ==
    \/ \E sh \in TwoShuffles(openSpaces(Maps[2])) : FirstLoad(2, sh)
    \/ Refresh(PointerTicks)
    \/ Animate
    \/ \E code \in LockKeys : KeyDown(code, PointerInputs, PointerShots)
    \/ \E code \in LockKeys : KeyUp(code)
    \/ Click(PointerInputs, PointerShots)
    \/ PointerLockChange
    \/ ReleaseLock(PointerInputs)
    \/ \E turn \in MouseTurns : MouseMove(turn, PointerInputs)
    \/ \E b \in BOOLEAN : SetInventoryVisible(b)

SpecPointer == Init /\ [][NextPointer]_vars

\* one map session and its teardown with the fire triggers: the Space key, the
\* page's trigger and the click under pointer lock, with the inventory prop
NextFire ==
    \/ \E sh \in TwoShuffles(openSpaces(Maps[2])) : FirstLoad(2, sh)
    \/ ClearMap(FireLoads)
    \/ Refresh(FireTicks)
    \/ Animate
    \/ DungeonShoot(FireShots, FireTicks)
    \/ KeyDown("Space", FireInputs, FireShots)
    \/ KeyUp("Space")
    \/ Click(FireInputs, FireShots)
    \/ PointerLockChange
    \/ \E b \in BOOLEAN : SetInventoryVisible(b)

SpecFire == Init /\ [][NextFire]_vars

\* one map session with a standing player that turns towards a wall, the key
\* pressed in the first frames and held, and fires
NextGraze ==
    \/ \E sh \in TwoShuffles(openSpaces(Maps[2])) : FirstLoad(2, sh)
    \/ Refresh(GrazeTicks)
    \/ Animate
    \/ DungeonShoot(GrazeShots, GrazeTicks)
    \/ ticks <= KeyWindow /\ KeyDown("ArrowRight", GrazeInputs, 0)
    \/ ticks <= KeyWindow /\ KeyUp("ArrowRight")

SpecGraze == Init /\ [][NextGraze]_vars

\* the maps of the forward walk: an open edge ahead of the spawn cell, a wall
\* ahead of it
ForwardMaps == {1, 8}

ForwardKeys == {"ArrowUp", "ShiftLeft"}

\* one map session in which the player walks forward from the spawn pose, the
\* keys pressed in the first frames and held
NextForward ==
    \/ \E m \in ForwardMaps : \E sh \in TwoShuffles(openSpaces(Maps[m])) : FirstLoad(m, sh)
    \/ Refresh(ForwardTicks)
    \/ Animate
    \/ \E code \in ForwardKeys : ticks <= KeyWindow /\ KeyDown(code, ForwardInputs, 0)
    \/ \E code \in ForwardKeys : ticks <= KeyWindow /\ KeyUp(code)

SpecForward == Init /\ [][NextForward]_vars

\* the page and its overlays: one map load and its first pass, the welcome
\* buttons, Tab, the close and quit buttons, the timeouts
NextPage ==
    \/ \E sh \in TwoShuffles(openSpaces(Maps[2])) : FirstLoad(2, sh)
    \/ Animate
    \/ PointerLockChange
    \/ TabKey
    \/ LoadingTimeout
    \/ \E action \in {"inventory", "game"} : WelcomeAction(action, PageTimers)
    \/ CloseInventory(PageTimers)
    \/ LockTimeout
    \/ QuitGame(PageQuits)
    \/ QuitSaved
    \/ PageReload

SpecPage == Init /\ [][NextPage]_vars

\* the page and its quick actions, before the map has arrived: the stored
\* player state, casts and heals from keys and buttons, and the overlay
\* changes that make the page register its key listeners again
NextMana ==
    \/ \E h \in StoredHealth : LoadPlayerState(h)
    \/ \E action \in QuickActions, fromKey \in BOOLEAN :
           handleAction(action, fromKey, PageActions)
    \/ \E action \in {"inventory", "game"} : WelcomeAction(action, PageTimers)
    \/ CloseInventory(PageTimers)
    \/ LockTimeout
    \/ TabKey
    \/ LoadingTimeout

SpecMana == Init /\ [][NextMana]_vars

\* the maps and the draws of the pursuit: on the second map a creature whose
\* way to the player passes a wall corner, on the ninth a creature next to the
\* walls of the first row
StalkMaps == {2, 9}
StalkShuffles(open) == {Shuffled(open, k, FALSE) : k \in {0, 1, Len(open) - 3}}

\* one map session with a player that stands at the spawn pose while the frame
\* loop runs on: the creatures close in until none of them moves any more
NextStalk ==
    \/ \E m \in StalkMaps : \E sh \in StalkShuffles(openSpaces(Maps[m])) : FirstLoad(m, sh)
    \/ RefreshOn
    \/ Animate

SpecStalk == Init /\ [][NextStalk]_vars

\* a running animate() call goes on to its next stage: the calls of its body
\* are synchronous
StagePasses ==
    /\ pc # "idle"
    /\ pc' = IF pc = "draw" THEN (IF passesLeft > 1 THEN "movement" ELSE "idle")
             ELSE StageAfter(pc)

\* the same under a frame loop that never stops: every animate() call runs to
\* its end and requestAnimationFrame calls animate again at the next refresh
SpecStalkFair == SpecStalk /\ WF_vars(RefreshOn) /\ WF_pc(StagePasses)

\* map loads and reloads and the fire trigger under a frame loop that runs on:
\* the cleanup queue fills by hits and reloads and drains
NextDrain ==
    \/ \E sh \in TwoShuffles(openSpaces(Maps[2])) : LoadMap(2, sh, DrainLoads)
    \/ RefreshOn
    \/ Animate
    \/ DungeonShoot(DrainShots, 0)

SpecDrain == Init /\ [][NextDrain]_vars /\ WF_vars(RefreshOn) /\ WF_pc(StagePasses)

\* map loads and reloads, frames and the fire trigger; no keyboard or pointer
ReloadMaps == {2, 6}

NextReload ==
    \/ \E m \in ReloadMaps : \E sh \in TwoShuffles(openSpaces(Maps[m])) : LoadMap(m, sh, ReloadLoads)
    \/ ClearMap(ReloadLoads)
    \/ Refresh(ReloadTicks)
    \/ Animate
    \/ DungeonShoot(ReloadShots, ReloadTicks)

SpecReload == Init /\ [][NextReload]_vars

\* one map session with a standing player: the creatures close in over many frames
NextChase ==
    \/ \E sh \in Shuffles(openSpaces(Maps[2])) : FirstLoad(2, sh)
    \/ Refresh(ChaseTicks)
    \/ Animate
    \/ DungeonShoot(ChaseShots, ChaseTicks)

SpecChase == Init /\ [][NextChase]_vars

\* one map session on the open row, shots in the first frames, a full bolt lifetime
NextFlight ==
    \/ \E sh \in Shuffles(openSpaces(Maps[1])) : FirstLoad(1, sh)
    \/ Refresh(FlightTicks)
    \/ Animate
    \/ DungeonShoot(FlightShots, ShotWindow)

SpecFlight == Init /\ [][NextFlight]_vars

\* map loads on every map, each followed by its first frame
NextSpawn ==
    \/ \E m \in AllMaps : \E sh \in Rotations(openSpaces(Maps[m])) : LoadMap(m, sh, SpawnLoads)
    \/ Animate

SpecSpawn == Init /\ [][NextSpawn]_vars

----------------------------------------------------------------------------
(* Properties *)

IsPrefix(s, t) == Len(s) <= Len(t) /\ \A i \in DOMAIN s : s[i] = t[i]

FrameOrder == <<"movement", "projectiles", "creatures", "cleanup", "draw">>

\* C1: every run of the frame callback executes its five stages exactly once and
\* in the order player movement, projectile update, creature AI update, cleanup
\* drain, draw, each stage completing before the next starts: the stages run so
\* far are always a prefix of that order, the callback is at the stage right
\* after that prefix, and between callbacks the last one ran all five.
C1_PipelineOrder ==
    /\ IsPrefix(frame.stages, FrameOrder)
    /\ pc \in {"idle", "movement"} => frame.stages \in {<<>>, FrameOrder}
    /\ pc \in {"idle", "movement"} /\ frame.stages = <<>> => ticks = 0 /\ released = <<>>
    /\ pc \notin {"idle", "movement"} => FrameOrder[Len(frame.stages) + 1] = pc

\* two loops are alive and a display refresh has run both callbacks to the end
C1_Witness ==
    /\ pc = "idle"
    /\ loops >= 2
    /\ ticks >= 1
    /\ frame.stages = FrameOrder

\* the keys that ask for a step forward or backward whatever the pointer lock
WalkKeys == {"ArrowUp", "KeyW", "ArrowDown", "KeyS"}

\* C2: no-clip.  After every movement attempt, accepted or rejected, the player's
\* box (0.3 either side of the position) intersects no wall box and no live
\* creature's box.  Stated for the state right after the movement stage of a
\* frame in which a forward or backward key is held.
C2_NoClip ==
    scene /\ pc = "projectiles" /\ keys \cap WalkKeys # {} =>
        LET pb == BoxAt(player.x, player.z, 300, 300)
        IN /\ \A w \in walls : ~intersectsBox(pb, w)
           /\ \A i \in DOMAIN creatures : ~intersectsBox(pb, creatures[i].box)

\* C3: the cleanup drain is rate-limited.  Each frame releases exactly
\* min(2, remaining) entries from the front of the cleanup queue, so with N
\* entries at the last enqueue and k drains since, max(0, N - 2k) entries remain:
\* the queue is empty after exactly ceil(N / 2) frames and not before.
C3_DrainRate ==
    /\ Len(cleanupQueue) = Max(0, drain.n - 2 * drain.passes)
    /\ 2 * drain.passes <= drain.n + 1
    /\ pc = "draw" =>
           /\ Len(released) - frame.releasedAtStart =
                  Min(2, Len(frame.queueAtStart) + Len(frame.removed))
           /\ SubSeq(released, frame.releasedAtStart + 1, Len(released)) =
                  SubSeq(frame.queueAtStart \o [j \in DOMAIN frame.removed |->
                                                   frame.removed[j].creature],
                         1, Len(released) - frame.releasedAtStart)

\* five entries were queued at once and the third drain after that emptied the queue
C3_Witness ==
    /\ drain.n = 5
    /\ drain.passes = 3
    /\ cleanupQueue = <<>>
    /\ Len(released) >= 5

\* the creatures released since the current frame began
ReleasedThisFrame ==
    {released[i] : i \in (frame.releasedAtStart + 1)..Len(released)}

\* C4 as stated: a creature removed by a projectile hit in frame F never has its
\* resources released by the cleanup drain of the same frame F.
C4_NeverSameFrame ==
    \A j \in DOMAIN frame.removed : frame.removed[j].creature \notin ReleasedThisFrame

\* C4, amended: a creature removed by a projectile hit in frame F leaves the pool
\* and is queued, and the projectile update itself releases nothing; the drain of
\* the same frame F releases it exactly when fewer than two entries precede it in
\* the cleanup queue, and otherwise it is still queued when F ends.
C4_TwoPhase ==
    \A j \in DOMAIN frame.removed :
        LET id == frame.removed[j].creature
        IN /\ id \notin Range(Ids(creatures))
           /\ pc \in {"creatures", "cleanup"} =>
                  id \notin Range(released) /\ id \in Range(cleanupQueue)
           /\ pc \in {"draw", "idle", "movement"} =>
                  IF Len(frame.queueAtStart) + j <= 2
                  THEN id \in ReleasedThisFrame /\ id \notin Range(cleanupQueue)
                  ELSE id \notin Range(released) /\ id \in Range(cleanupQueue)

\* the frame that removed a creature has drained it as well
C4_Witness ==
    /\ pc = "draw"
    /\ frame.removed # <<>>
    /\ frame.removed[1].creature \in ReleasedThisFrame

\* a frame removed a creature behind two queued entries and left it queued
C4_Deferred ==
    /\ pc = "draw"
    /\ frame.removed # <<>>
    /\ frame.removed[1].creature \in Range(cleanupQueue)

\* C5: within one frame a single projectile removes at most one creature, even
\* when its box intersects several; so the creatures removed in a frame are
\* never more than the projectiles live at the start of that frame.
C5_OneCreaturePerProjectile ==
    /\ \A j, k \in DOMAIN frame.removed :
           j # k => frame.removed[j].by # frame.removed[k].by
    /\ Len(frame.removed) <= frame.liveAtStart

\* a projectile whose box intersected two creatures has removed one of them
C5_Witness ==
    \E j \in DOMAIN frame.removed : frame.removed[j].touching >= 2

RetiredIds == {r.id : r \in retired}
LiveIds(ps) == {ps[i].id : i \in DOMAIN ps}

\* one step of the program, as C6 constrains it
C6_Step ==
    /\ retired \subseteq retired'
    /\ RetiredIds \cap LiveIds(projectiles') = {}
    /\ \A i \in DOMAIN projectiles :
           LET p == projectiles[i]
           IN IF pc = "projectiles" /\ scene
              THEN /\ p.id \in Range(frame'.advanced)
                   /\ \/ \E k \in DOMAIN projectiles' :
                             /\ projectiles'[k].id = p.id
                             /\ projectiles'[k].life = p.life - 1
                      \/ \E r \in retired' \ retired :
                             r.id = p.id /\ r.life = p.life - 1
              ELSE \E k \in DOMAIN projectiles' : projectiles'[k] = p
    /\ pc = "projectiles" => Range(frame'.advanced) \cap RetiredIds = {}

\* C6: every live projectile's remaining life goes down by exactly 1 on each
\* frame and by nothing in between; a projectile that was retired is never
\* updated again and never returns to the active list.
C6_LifeCountdown == [][C6_Step]_vars

\* a projectile was updated on several frames, was retired, and frames went on
C6_Witness ==
    /\ \E r \in retired : r.age >= 2
    /\ projectiles = <<>>
    /\ pc = "projectiles"
    /\ frame.liveAtStart = 0

\* C7: a projectile spawned with remaining life 100 that intersects no wall and
\* no creature is retired exactly on its 100th update, not earlier and not later,
\* with neither hit flag set and without removing any creature.
C7_ExpiresAt100 ==
    /\ \A r \in retired :
           ~r.hitWall /\ ~r.hitCreature => r.age = 100 /\ r.life = 0
    /\ \A i \in DOMAIN projectiles :
           projectiles[i].age < 100 /\ projectiles[i].life = 100 - projectiles[i].age
    /\ \A j \in DOMAIN frame.removed :
           \E r \in retired : r.id = frame.removed[j].by /\ r.hitCreature

\* a projectile flew free and was retired by its life alone
C7_Witness ==
    \E r \in retired : ~r.hitWall /\ ~r.hitCreature /\ r.age = 100

\* C8: every creature's position, converted to grid indices by
\* floor((x + width * cellSize / 2) / cellSize) and likewise for z, lies inside
\* the map matrix on a floor cell, from spawn and after every AI step.
C8_CreatureOnFloor ==
    \A i \in DOMAIN creatures :
        LET g == Maps[mapDataRef]
            gx == (creatures[i].x + (Len(g[1]) * 2000) \div 2) \div 2000
            gz == (creatures[i].z + (Len(g) * 2000) \div 2) \div 2000
        IN /\ mapDataRef # 0
           /\ gx \in 0..(Len(g[1]) - 1)
           /\ gz \in 0..(Len(g) - 1)
           /\ g[gz + 1][gx + 1] = 0

\* after twenty frames one creature has walked off its spawn point, and the one
\* behind the wall of the first row is still on its spawn point, 4 from the player
C8_Witness ==
    /\ ticks >= 20
    /\ mapDataRef = 2
    /\ player.x = -3000 /\ player.z = -3000
    /\ \E i \in DOMAIN creatures : creatures[i].z % 2000 # 0
    /\ \E i \in DOMAIN creatures : creatures[i].x = 1000 /\ creatures[i].z = -3000

\* the integer division of the model rounds down, as Math.floor does
FloorDivision == (-20) \div 2000 = -1 /\ (-2000) \div 2000 = -1 /\ 1980 \div 2000 = 0

\* the floor cells of a map, counted from the matrix
FloorCount(g) ==
    Cardinality({rc \in (1..Len(g)) \X (1..Len(g[1])) : g[rc[1]][rc[2]] = 0})

\* floor(n / 10) clamped to 3..5
ClampedCount(n) ==
    IF n \div 10 < 3 THEN 3 ELSE IF n \div 10 > 5 THEN 5 ELSE n \div 10

\* C9 as stated: on every load of a map with at least one floor cell, the
\* creatures placed in the pool number clamp(floor(openCellCount / 10), 3, 5).
C9_ClampedCount ==
    mapDataRef # 0 => Len(creatures) = ClampedCount(FloorCount(Maps[mapDataRef]))

\* C9, amended: on every load of a map with at least one floor cell, the
\* creatures placed in the pool number clamp(floor(openCellCount / 10), 3, 5),
\* or openCellCount when the map has fewer floor cells than that.
C9_CountWithinCells ==
    mapDataRef # 0 =>
        LET n == FloorCount(Maps[mapDataRef])
        IN /\ n >= 1
           /\ Len(creatures) = Min(n, ClampedCount(n))
           /\ Cardinality({<<creatures[i].x, creatures[i].z>> : i \in DOMAIN creatures})
                  = Len(creatures)

\* the map with two floor cells is loaded and two creatures are in the pool
C9_Witness ==
    /\ mapDataRef = 3
    /\ FloorCount(Maps[3]) = 2
    /\ Len(creatures) = 2

\* the map effect is running: the rebuild is done and the frame the effect
\* starts by calling animate() itself has not returned
InReload == pc # "idle" /\ passesLeft = 0

\* the wall boxes of a map, from the matrix: a 2 x 2 box around each wall cell
ExpectedWalls(g) ==
    {[minX |-> (rc[2] - 1) * 2000 - Len(g[1]) * 1000 - 1000,
      maxX |-> (rc[2] - 1) * 2000 - Len(g[1]) * 1000 + 1000,
      minZ |-> (rc[1] - 1) * 2000 - Len(g) * 1000 - 1000,
      maxZ |-> (rc[1] - 1) * 2000 - Len(g) * 1000 + 1000] :
        rc \in {q \in (1..Len(g)) \X (1..Len(g[1])) : g[q[1]][q[2]] = 1}}

\* what C10 and its amended form share: while the effect runs the wall list is
\* the new map's, and the creatures of the previous pool are out of the pool,
\* where the obstacles of movement and the targets of projectiles are taken from
C10_Rebuilt ==
    /\ InReload => walls = ExpectedWalls(Maps[mapData])
    /\ InReload => Range(drain.reloaded) \cap Range(Ids(creatures)) = {}
    /\ Range(Ids(creatures)) \cap (Range(cleanupQueue) \cup Range(released)) = {}

\* C10 as stated: on every change to a new non-null map the wall list is replaced
\* by the new map's boxes, every creature of the previous pool is removed from
\* the pool and appended to the cleanup queue, none disposed during the reload
\* itself, and none remains an obstacle or a target afterwards.
C10_NoneDisposedInReload ==
    /\ C10_Rebuilt
    /\ InReload =>
           \A id \in Range(drain.reloaded) :
               id \in Range(cleanupQueue) /\ id \notin Range(released)

\* C10, amended: on every change to a new non-null map the wall list is replaced
\* by the new map's boxes and every creature of the previous pool is removed
\* from the pool and appended to the cleanup queue by the rebuild, which
\* disposes none; the frame that the reload runs before it returns drains the
\* queue as every frame does, so at most 2 of them are disposed during the
\* reload.  None remains an obstacle or a target afterwards.
C10_ReloadQueuesPool ==
    /\ C10_Rebuilt
    /\ InReload /\ pc \in {"movement", "projectiles", "creatures", "cleanup"} =>
           /\ \A id \in Range(drain.reloaded) :
                  id \in Range(cleanupQueue) /\ id \notin Range(released)
           /\ \E n \in 0..Len(cleanupQueue) :
                  SubSeq(cleanupQueue, n + 1, n + Len(drain.reloaded)) = drain.reloaded
    /\ InReload /\ pc = "draw" =>
           /\ \A id \in Range(drain.reloaded) :
                  (id \in Range(cleanupQueue)) # (id \in Range(released))
           /\ Cardinality(Range(drain.reloaded) \cap Range(released)) <= 2
           /\ Range(drain.reloaded) \cap Range(released) \subseteq ReleasedThisFrame

\* a reload queued a pool of five and its own frame has disposed two of them
C10_Witness ==
    /\ InReload
    /\ pc = "draw"
    /\ Len(drain.reloaded) = 5
    /\ Cardinality(Range(drain.reloaded) \cap Range(released)) = 2
    /\ creatures # <<>>

\* C11: whenever the map data is null the core is passive: the wall collision
\* set is empty and the creature pool is empty.
C11_PassiveWithoutMap == mapData = 0 => walls = {} /\ creatures = <<>>

\* C12: a creature AI step whose candidate position converts to a grid cell
\* outside the matrix is rejected: the creature keeps its position, and every
\* creature stays on grid indices inside the matrix.
C12_OffGridRejected ==
    /\ pc \in {"cleanup", "draw"} =>
           \A e \in frame.offGrid :
               \E i \in DOMAIN creatures :
                   creatures[i].id = e.id /\ creatures[i].x = e.x /\ creatures[i].z = e.z
    /\ \A i \in DOMAIN creatures :
           LET g == Maps[mapDataRef]
           IN /\ (creatures[i].x + Len(g[1]) * 1000) \div 2000 \in 0..(Len(g[1]) - 1)
              /\ (creatures[i].z + Len(g) * 1000) \div 2000 \in 0..(Len(g) - 1)

\* the player has stepped back over the edge of the first row and the AI step of
\* a creature on that row pointed outside the matrix
C12_Witness ==
    /\ pc = "cleanup"
    /\ frame.offGrid # {}
    /\ player.z < -3000

\* C13: the player's position never leaves the world extent of the grid matrix.
\* The extent is taken at its widest: from one cell half before the first cell
\* centre (the edge of its box) to the far edge by the grid conversion.
C13_PlayerInsideGrid ==
    scene /\ mapDataRef # 0 =>
        LET g == Maps[mapDataRef]
        IN /\ player.x >= -(Len(g[1]) * 1000) - 1000
           /\ player.x <= Len(g[1]) * 1000
           /\ player.z >= -(Len(g) * 1000) - 1000
           /\ player.z <= Len(g) * 1000

\* C14: while the inventory-visible flag is true, pointer capture is not held
\* (and so no click on the canvas spawns a projectile).  Stated for the states
\* in which the pointer-lock-change event has been delivered.
C14_NoCaptureWithInventory ==
    inventoryVisible /\ isLocked = lockElement => ~lockElement

\* C15: every Space key-down and every call of window.dungeonShoot has spawned
\* exactly one projectile, whatever the inventory prop and the pointer lock
\* were, and a projectile starts with life 100; the triggers are registered
\* exactly while a map's effect is set up and are gone after its teardown.
C15_OneBoltPerTrigger ==
    /\ registered <=> mapData # 0
    /\ registered => scene
    /\ nextProj = inputs.triggers + 1
    /\ \A i \in DOMAIN projectiles :
           projectiles[i].age = 0 => projectiles[i].life = boltLife

C15_Witness ==
    /\ inputs.triggers = 2
    /\ Len(projectiles) = 2
    /\ \A i \in DOMAIN projectiles : projectiles[i].age = 0
    /\ inventoryVisible
    /\ clickInv
    /\ ~registered
    /\ "Space" \in keys

\* C16: in every pass in which the movement stage has run, the pose sink was
\* called exactly once, and with the pose as it is after all turn and
\* translation intents of that pass, also when no key is held and when every
\* move was rejected.
C16_PoseEmittedOnce ==
    pc \in {"projectiles", "creatures", "cleanup", "draw"} =>
        /\ frame.poseEmits = 1
        /\ poseSink = player

C16_Witness ==
    /\ pc = "projectiles"
    /\ ticks >= 2
    /\ "ArrowDown" \in keys
    /\ ~isMoving
    /\ frame.poseEmits = 1
    /\ poseSink = player

\* C17: in every pass, once the creature stage has run, the creature sink was
\* called exactly once, and with the positions of exactly the creatures of the
\* pool as they are after every AI step of that pass: no creature that a
\* projectile removed earlier in the pass, no position from before a step.
C17_CreatureSnapshot ==
    pc \in {"cleanup", "draw"} =>
        /\ frame.creatureEmits = 1
        /\ creatureSink = Positions(creatures)
        /\ \A k \in DOMAIN frame.removed :
               frame.removed[k].creature \notin Range(Ids(creatures))

C17_Witness ==
    /\ pc = "cleanup"
    /\ frame.removed # <<>>
    /\ Len(creatures) = 2
    /\ Len(creatureSink) = 2
    /\ \E i \in DOMAIN creatures : creatures[i].x % cellSize # 1000

\* C18: the projectile update, the creature AI step and the cleanup drain leave
\* the player pose unchanged; apart from a map load, a step changes the pose
\* only if it is the movement stage or a pointer-look event under pointer
\* lock, and pointer look changes the angle alone.
C18_PoseOwnership ==
    [][player' # player =>
          \/ pc = "movement"
          \/ loads' # loads
          \/ /\ pc = "idle"
             /\ isLocked
             /\ inputs'.n = inputs.n + 1
             /\ player'.x = player.x
             /\ player'.z = player.z]_vars

C18_Witness ==
    /\ pc = "draw"
    /\ frame.advanced # <<>>
    /\ frame.removed # <<>>
    /\ released # <<>>
    /\ creatures # <<>>
    /\ player.angle # spawnAngle
    /\ poseSink = player

\* C19: a projectile whose box, in one pass, intersects a wall box and the box
\* of a creature of the pool still hits the creature: after the projectile
\* stage of that pass the projectile is retired and no longer in flight, and a
\* creature it removed is out of the pool and in the cleanup queue.
C19_CreatureHitDespiteWall ==
    pc = "creatures" =>
        \A k \in DOMAIN frame.contacts :
            LET c == frame.contacts[k]
            IN c.wall /\ c.touching >= 1 =>
                   /\ c.id \in RetiredIds
                   /\ c.id \notin LiveIds(projectiles)
                   /\ \E j \in DOMAIN frame.removed :
                          /\ frame.removed[j].by = c.id
                          /\ frame.removed[j].creature \notin Range(Ids(creatures))
                          /\ frame.removed[j].creature \in Range(cleanupQueue)

C19_Witness ==
    /\ pc = "creatures"
    /\ \E k \in DOMAIN frame.contacts :
           frame.contacts[k].wall /\ frame.contacts[k].touching >= 1
    /\ \E r \in retired : r.hitWall /\ r.hitCreature
    /\ Len(creatures) = 2

\* C20: in a movement stage with the side-step key Q alone held and no pointer
\* lock, when the combined candidate (newX, newZ) is blocked and the move along
\* one axis alone is blocked too while the move along the other axis alone is
\* clear, the clear axis component is applied: the player slides along the
\* obstacle.
C20_SlidesAlongWall ==
    [][pc = "movement" /\ scene /\ keys = {"KeyQ"} /\ ~isLocked =>
          LET s == moveSpeed(keys)
              dx == -Scale(Cos(player.angle), s)
              dz == Scale(Sin(player.angle), s)
              blocked(x, z) == checkCollision(walls, creatures, x, z)
          IN blocked(player.x + dx, player.z + dz) /\ dx # 0 /\ dz # 0 =>
                 /\ blocked(player.x + dx, player.z) /\ ~blocked(player.x, player.z + dz)
                        => player'.z = player.z + dz
                 /\ blocked(player.x, player.z + dz) /\ ~blocked(player.x + dx, player.z)
                        => player'.x = player.x + dx]_vars

\* C21: without pointer lock the strafe keys Q and E move the player in a
\* direction of the world that does not depend on the player's angle: a
\* movement stage with only strafe keys held either leaves the position (the
\* move was rejected) or displaces the player as the same keys would at any
\* other angle.
C21_StrafeWorldRelative ==
    [][pc = "movement" /\ scene /\ keys # {} /\ keys \subseteq {"KeyQ", "KeyE"}
          /\ ~isLocked /\ (player'.x # player.x \/ player'.z # player.z) =>
          \A a \in 0..(FullTurn - 1) :
              LET q == [player EXCEPT !.angle = a]
                  r == Moved(q, keys, FALSE, {}, <<>>).p
              IN /\ player'.x - player.x = r.x - q.x
                 /\ player'.z - player.z = r.z - q.z]_vars

\* offsets from the low corner of a cell's footprint, over its whole width
FootprintOffsets == {0, 500, 1000, 1500, 1999}

\* C22: the world -> grid conversion of the creature AI inverts the
\* grid -> world transform of the wall geometry: every world point inside the
\* footprint of a wall's box (its centre +- cellSize / 2 in x and z) converts
\* back to the cell whose centre is the centre of that box.
C22_GridInverse ==
    mapDataRef # 0 =>
        LET g == Maps[mapDataRef]
        IN \A w \in walls : \A dx, dz \in FootprintOffsets :
               /\ CellX(g, ToGrid(w.minX + dx, Width(g))) = (w.minX + w.maxX) \div 2
               /\ CellZ(g, ToGrid(w.minZ + dz, Height(g))) = (w.minZ + w.maxZ) \div 2

\* the floor cells of a map and the first of them in row-major order
FloorCells(g) ==
    {cell \in [row : 0..(Height(g) - 1), col : 0..(Width(g) - 1)] :
        CellCode(g, cell.row, cell.col) = 0}

FirstFloor(g) ==
    CHOOSE c \in FloorCells(g) :
        \A d \in FloorCells(g) : c.row < d.row \/ (c.row = d.row /\ c.col <= d.col)

C24_DistinctSpawnCells ==
    scene /\ mapDataRef # 0 /\ pc = "movement" /\ passesLeft = 0 =>
        LET g == Maps[mapDataRef]
        IN /\ \A i \in DOMAIN creatures :
                  \E c \in FloorCells(g) :
                      /\ creatures[i].x = (c.col * 2 - Width(g)) * 1000
                      /\ creatures[i].z = (c.row * 2 - Height(g)) * 1000
           /\ \A i, j \in DOMAIN creatures :
                  i # j => creatures[i].x # creatures[j].x \/ creatures[i].z # creatures[j].z

C24_Witness ==
    /\ pc = "movement"
    /\ passesLeft = 0
    /\ mapDataRef = 6
    /\ Len(creatures) = 5
    /\ creatures[1].x # CellX(Maps[6], 0)

\* the squared distance between a creature and the player, and its integer root
Dist2(c, p) == (p.x - c.x) * (p.x - c.x) + (p.z - c.z) * (p.z - c.z)
Dist(c, p) == ISqrt(Dist2(c, p))

\* one creature across one creature stage, as C25 constrains it: at or inside
\* the dead zone it holds; if it moved it was outside, its step has length
\* 0.02 and brings it 0.02 closer to the player, to no less than 1.48 (lengths
\* to the model's unit: components are rounded to 0.001 and roots are floors)
C25_Step(c, d, p) ==
    /\ Dist2(c, p) <= deadZone * deadZone => d = c
    /\ d.x # c.x \/ d.z # c.z =>
           /\ Dist2(c, p) > deadZone * deadZone
           /\ ISqrt((d.x - c.x) * (d.x - c.x) + (d.z - c.z) * (d.z - c.z))
                  \in (creatureMoveSpeed - 1)..creatureMoveSpeed
           /\ Dist(c, p) - Dist(d, p) \in (creatureMoveSpeed - 1)..(creatureMoveSpeed + 1)
           /\ Dist(d, p) >= deadZone - creatureMoveSpeed - 1

\* C25: in the AI step a creature at most 1.5 from the player holds its
\* position; a creature farther away takes at most one step, of length 0.02 and
\* straight towards the player, which reduces its distance by 0.02 and never
\* to less than 1.48.
C25_DeadZone ==
    [][pc = "creatures" /\ mapDataRef # 0 =>
          /\ Len(creatures') = Len(creatures)
          /\ \A i \in DOMAIN creatures : C25_Step(creatures[i], creatures'[i], player)]_vars

C25_Witness ==
    /\ pc = "cleanup"
    /\ ticks >= 26
    /\ \E i \in DOMAIN creatures :
           /\ Dist2(creatures[i], player) <= deadZone * deadZone
           /\ Dist(creatures[i], player) >= deadZone - creatureMoveSpeed - 1
    /\ \E i \in DOMAIN creatures : Dist2(creatures[i], player) > deadZone * deadZone

\* the pool indices whose box meets the box of a projectile after its advance
Met(cs, pr) == {i \in DOMAIN cs : intersectsBox(projectileBox(Advanced(pr)), cs[i].box)}

\* C26: the creatures are tested against a projectile from the highest pool
\* index down: when the box of the one projectile in flight meets several
\* creatures in a pass, the creature removed is the one with the highest index;
\* whatever is removed, the other creatures stay in the pool in their order and
\* with their state.
C26_ReverseOrder ==
    [][pc = "projectiles" /\ scene =>
          /\ creatures' = SelectSeq(creatures,
                                    LAMBDA c : c.id \in Range(Ids(creatures')))
          /\ Len(projectiles) = 1 /\ Met(creatures, projectiles[1]) # {} =>
                 LET top == CHOOSE i \in Met(creatures, projectiles[1]) :
                                \A k \in Met(creatures, projectiles[1]) : k <= i
                 IN /\ Len(creatures') = Len(creatures) - 1
                    /\ creatures[top].id \notin Range(Ids(creatures'))]_vars

C26_Witness ==
    /\ pc = "creatures"
    /\ Len(frame.removed) = 1
    /\ frame.removed[1].touching = 2
    /\ Len(creatures) = 2
    /\ frame.removed[1].creature > creatures[2].id
    /\ creatures[1].x = player.x
    /\ creatures[1].z = player.z

\* the candidate of the one translation intent of a pass in which ArrowDown
\* alone or Q alone (without pointer lock) asks for a step, at the angle a
\* that the turn keys of the pass have produced
OneIntent(ks) == ks \cap {"ArrowUp", "KeyW", "ArrowDown", "KeyS", "KeyA", "KeyD", "KeyQ", "KeyE"}

IntentCandidate(p, ks, a) ==
    LET s == moveSpeed(ks)
    IN IF "ArrowDown" \in ks
       THEN [x |-> p.x + Scale(Sin(a), s), z |-> p.z + Scale(Cos(a), s)]
       ELSE [x |-> p.x - Scale(Cos(a), s), z |-> p.z + Scale(Sin(a), s)]

\* a creature's candidate is blocked: a wall cell, a cell outside the matrix,
\* or a box that meets a wall box
StepBlocked(c, g, ws, p) ==
    LET cand == Candidate(c, p)
        gx == ToGrid(cand.x, Width(g))
        gz == ToGrid(cand.z, Height(g))
    IN /\ cand.far
       /\ \/ ~(gx \in 0..(Width(g) - 1) /\ gz \in 0..(Height(g) - 1))
          \/ CellCode(g, gz, gx) # 0
          \/ \E w \in ws : intersectsBox(BoxAt(cand.x, cand.z, creatureHalf, creatureHalf), w)

\* C27: a rejected action is dropped whole.  A pass whose one translation
\* intent has a blocked candidate leaves the player's x and z as they were;
\* a creature whose candidate is blocked keeps its position and its box.
\* Nothing is kept for a retry: the pose and the pool are all the next pass
\* starts from.
C27_RejectedDropped ==
    [][/\ (/\ pc = "movement"
           /\ scene
           /\ ~isLocked
           /\ OneIntent(keys) \in {{"ArrowDown"}, {"KeyQ"}}
           /\ LET cand == IntentCandidate(player, keys, player'.angle)
              IN checkCollision(walls, creatures, cand.x, cand.z))
          => (player'.x = player.x /\ player'.z = player.z /\ ~isMoving')
       /\ (pc = "creatures" /\ mapDataRef # 0) =>
              \A i \in DOMAIN creatures :
                  StepBlocked(creatures[i], Maps[mapDataRef], walls, player)
                      => creatures'[i] = creatures[i]]_vars

C27_Witness ==
    /\ pc = "cleanup"
    /\ keys = {"KeyQ"}
    /\ ~isMoving
    /\ player.x > -3000
    /\ checkCollision(walls, <<>>, player.x + baseSpeed, player.z)
    /\ \E i \in DOMAIN creatures :
           /\ creatures[i].x = 1000
           /\ creatures[i].z = -3000
           /\ StepBlocked(creatures[i], Maps[mapDataRef], walls, player)

\* the overlays the page shows
Shown == {o \in {"welcome", "loading", "inventory"} :
             \/ o = "welcome" /\ page.showWelcome
             \/ o = "loading" /\ page.isLoadingInventory
             \/ o = "inventory" /\ page.showInventory}

\* C28: at most one of the welcome, loading and inventory overlays is shown at
\* any time while the page is up.
C28_OneOverlay == page.alive => Cardinality(Shown) <= 1

\* C30: the player's mana stays between 0 and maxMana whatever quick-action
\* keys and buttons are used and whatever re-renders happen in between.
C30_ManaInRange == page.mana \in 0..maxMana

\* C29: at most one frame loop is scheduled at any time, however many maps
\* have been loaded, cleared and loaded again.
C29_OneLoop == loops <= 1

\* C31: a map load leaves no projectile in the active list: whatever was in
\* flight under the previous map is gone when the new map's scene is set up.
C31_NoBoltAcrossReload ==
    [][loads' # loads /\ mapData' # 0 => projectiles' = <<>>]_vars

\* C32: right after every map load no creature's box intersects the player's
\* box at the spawn pose: no creature is created on the player's spawn cell.
C32_SpawnCellFree ==
    mapDataRef # 0 /\ pc = "movement" /\ passesLeft = 0 =>
        \A i \in DOMAIN creatures :
            ~intersectsBox(BoxAt(player.x, player.z, playerHalf, playerHalf),
                           creatures[i].box)

\* C33: in every state no living creature's box intersects a wall box of the
\* current map, at spawn and after every step of the creature update.
C33_CreatureClearOfWalls ==
    \A i \in DOMAIN creatures : \A w \in walls : ~intersectsBox(creatures[i].box, w)

\* a creature that has left its spawn cell centre has just been kept in place by
\* a creature update: its candidate was on an open cell of the matrix and was
\* turned down by the wall boxes alone
C33_Witness ==
    /\ pc = "cleanup"
    /\ mapDataRef # 0
    /\ \E i \in DOMAIN creatures :
          LET cand == Candidate(creatures[i], player)
              g == Maps[mapDataRef]
          IN /\ cand.far
             /\ GridOpen(g, ToGrid(cand.x, Width(g)), ToGrid(cand.z, Height(g)))
             /\ hitWall(BoxAt(cand.x, cand.z, creatureHalf, creatureHalf), walls)
             /\ [x |-> creatures[i].x, z |-> creatures[i].z] \notin Range(openSpaces(g))

\* which side of the line from (ax, az) to (bx, bz) the point (px, pz) is on
Side(ax, az, bx, bz, px, pz) == (bx - ax) * (pz - az) - (bz - az) * (px - ax)

\* the segment from (ax, az) to (bx, bz) meets the box b: the box reaches into
\* the segment's bounds and its corners are not all strictly on one side
SegmentMeets(ax, az, bx, bz, b) ==
    LET corners == {Side(ax, az, bx, bz, cx, cz) : cx \in {b.minX, b.maxX},
                                                   cz \in {b.minZ, b.maxZ}}
    IN /\ intersectsBox(Box(Min(ax, bx), Max(ax, bx), Min(az, bz), Max(az, bz)), b)
       /\ ~(\A s \in corners : s > 0)
       /\ ~(\A s \in corners : s < 0)

\* a wall box with the creature's half box added all around
Grown(w) ==
    Box(w.minX - creatureHalf, w.maxX + creatureHalf,
        w.minZ - creatureHalf, w.maxZ + creatureHalf)

\* the straight way from the creature to the player has room for the
\* creature's box: no wall box within 0.4 of the segment
ClearWay(c, p, ws) == \A w \in ws : ~SegmentMeets(c.x, c.z, p.x, p.z, Grown(w))

\* C34: with the player standing still, a creature whose straight way to the
\* player is clear of walls eventually is within the dead zone of the player and
\* stays there: from some frame on every creature with a clear way is that near.
C34_ArrivesOnClearWay ==
    <>[](\A i \in DOMAIN creatures :
            ClearWay(creatures[i], player, walls) =>
                Dist2(creatures[i], player) <= deadZone * deadZone)

\* everything that was ever appended to the cleanup queue, in the order of the
\* appends, as far as the state shows it: the released entries, then the queue
Enqueues == released \o cleanupQueue

DrainIds == 1..(maxCreatures * DrainLoads)

\* C35: every creature appended to the cleanup queue, by a hit or by a map
\* load, is eventually taken from it and released, once and in the order of the
\* appends: a step only appends to the record of appends and only moves entries
\* from the front of the queue to the released ones, no creature is in that
\* record twice or in it and in the pool, and whatever is queued gets released.
C35_QueuedIsReleasedInOrder ==
    /\ [][IsPrefix(released, released') /\ IsPrefix(Enqueues, Enqueues')]_vars
    /\ [](\A i, j \in DOMAIN Enqueues : i # j => Enqueues[i] # Enqueues[j])
    /\ [](Range(Ids(creatures)) \cap Range(Enqueues) = {})
    /\ \A id \in DrainIds :
          (id \in Range(cleanupQueue)) ~> (id \in Range(released))

\* three creatures queued by a reload, too many for one frame, and a creature
\* queued by a hit have all left the queue; the three were released in the
\* order of the pool
C35_Witness ==
    /\ Len(released) >= 4
    /\ cleanupQueue = <<>>
    /\ \E r \in retired : r.hitCreature
    /\ Len(drain.reloaded) = 3
    /\ \E k \in DOMAIN released : SubSeq(released, k, k + 2) = drain.reloaded

\* C36: a step of the creature update never leaves the creature that took it
\* with its box on the player's box.
C36_StepKeepsOffPlayer ==
    [][pc = "creatures" =>
          \A i \in DOMAIN creatures :
              creatures'[i] # creatures[i] =>
                  ~intersectsBox(BoxAt(player'.x, player'.z, playerHalf, playerHalf),
                                 creatures'[i].box)]_vars

\* a creature that has walked from its spawn cell has just arrived inside the
\* dead zone of the player
C36_Witness ==
    /\ pc = "cleanup"
    /\ mapDataRef # 0
    /\ \E i \in DOMAIN creatures :
          /\ [x |-> creatures[i].x, z |-> creatures[i].z]
                 \notin Range(openSpaces(Maps[mapDataRef]))
          /\ Dist2(creatures[i], player) <= deadZone * deadZone
          /\ creatureSink[i] = [x |-> creatures[i].x, z |-> creatures[i].z]

\* the translation intents held in a frame, in the order forward, back,
\* strafe left, strafe right, each with the step it asks for at angle a
HeldSteps(ks, locked, a) ==
    LET s == moveSpeed(ks)
        sn == Scale(Sin(a), s)
        cn == Scale(Cos(a), s)
    IN << [held |-> ks \cap {"ArrowUp", "KeyW"} # {}, dx |-> -sn, dz |-> -cn],
          [held |-> ks \cap {"ArrowDown", "KeyS"} # {}, dx |-> sn, dz |-> cn],
          [held |-> ("KeyA" \in ks /\ locked) \/ ("KeyQ" \in ks /\ ~locked),
           dx |-> -cn, dz |-> sn],
          [held |-> ("KeyD" \in ks /\ locked) \/ ("KeyE" \in ks /\ ~locked),
           dx |-> cn, dz |-> -sn] >>

\* the intents accepted one after the other from (x, z): each is tested at the
\* position the accepted ones before it have led to
RECURSIVE Accepted(_, _, _, _, _, _)
Accepted(x, z, steps, i, ws, cs) ==
    IF i > Len(steps) THEN <<>>
    ELSE IF steps[i].held /\ ~checkCollision(ws, cs, x + steps[i].dx, z + steps[i].dz)
         THEN <<steps[i]>> \o Accepted(x + steps[i].dx, z + steps[i].dz, steps, i + 1, ws, cs)
         ELSE Accepted(x, z, steps, i + 1, ws, cs)

RECURSIVE SumOf(_, _)
SumOf(steps, i) ==
    IF i > Len(steps) THEN [dx |-> 0, dz |-> 0]
    ELSE [dx |-> steps[i].dx + SumOf(steps, i + 1).dx,
          dz |-> steps[i].dz + SumOf(steps, i + 1).dz]

C38_PoolOnlyShrinks ==
    [][loads' = loads =>
          /\ Len(creatures') <= Len(creatures)
          /\ Len(creatures') <= maxCreatures
          /\ Range(Ids(creatures')) \subseteq Range(Ids(creatures))
          /\ Len(creatures') # Len(creatures) => pc = "projectiles"
          /\ pc = "projectiles" /\ scene =>
                Len(creatures) - Len(creatures') = Len(frame'.removed)]_vars

\* a pool of five has lost a creature to a hit
C38_Witness ==
    /\ pc = "creatures"
    /\ Len(creatures) = maxCreatures - 1
    /\ Len(frame.removed) = 1
    /\ frame.removed[1].creature \in Range(cleanupQueue)

\* C39: in every state the collision box of every living creature is the box
\* 0.4 either side of the creature's current position in x and in z.
C39_BoxFollowsPosition ==
    \A i \in DOMAIN creatures :
        creatures[i].box =
            BoxAt(creatures[i].x, creatures[i].z, creatureHalf, creatureHalf)

\* the projectile update is about to test the box of a creature that has walked
\* away from its spawn cell
C39_Witness ==
    /\ pc = "projectiles"
    /\ mapDataRef # 0
    /\ \E i \in DOMAIN creatures :
          /\ [x |-> creatures[i].x, z |-> creatures[i].z]
                 \notin Range(openSpaces(Maps[mapDataRef]))
          /\ Dist2(creatures[i], player) > deadZone * deadZone

\* how often dispose() was called on object r in the calls cs
TimesDisposed(cs, r) == Cardinality({k \in DOMAIN cs : cs[k] = r})

\* C40: for every released cleanup entry, each geometry and each material the
\* creature owned has been disposed exactly once.
C40_DisposedOnce ==
    \A k \in DOMAIN released :
        \A r \in OwnedResources(released[k]) :
            TimesDisposed(Disposals(released, 1), r) = 1
====
